---------------------------- MODULE Spec2Model ----------------------------
(***************************************************************************)
(* Model of plugins/sources/systemd/systemd.go: one ScrapeMetrics call of  *)
(* the systemd metrics source.  The orchestrator (ScrapeMetrics), the      *)
(* gathering goroutine and the collector goroutines are processes; the     *)
(* gather channel, the done channel, the wait group, the dbus connection   *)
(* and the filtered-points counter are the shared state.                   *)
(*                                                                         *)
(* Representation choices:                                                 *)
(*  - strings.HasSuffix is read off the table SuffixOf of the unit names   *)
(*    the model uses;                                                      *)
(*  - a tag map is a record over the three keys the source uses, a key    *)
(*    that is absent holding "" (setTag never stores an empty value);      *)
(*  - the slice `points` and the batch's MetricPoints are kept as bags:    *)
(*    the source gives no order among points of different goroutines and   *)
(*    the multiplicity of every point is preserved;                        *)
(*  - a nil filter / nil batch / nil error is a record with nil |-> TRUE   *)
(*    or the string "nil".                                                 *)
(***************************************************************************)
EXTENDS Naturals, Integers, Sequences, FiniteSets, Bags, TLC

(***************************************************************************)
(* Bounds of the model.                                                    *)
(***************************************************************************)
\* largest number of units in the snapshot returned by ListUnits
MaxUnits == 2
\* capacity of the gather channel (make(chan *MetricPoint, 1000) in the
\* source, scaled down so that producers do block on a full channel)
GatherCap == 1
\* largest number of steps (property lookups and sends, the unit_state
\* sends aside) the collectors of one scrape may take
MaxSteps == 6

(***************************************************************************)
(* Program constants.                                                      *)
(***************************************************************************)
\* var unitStatesName
unitStatesName == <<"active", "activating", "deactivating", "inactive", "failed">>

\* math.MaxUint64, the "unlimited" sentinel of TasksCurrent / TasksMax.  The
\* model checker's integers are 32 bits wide: the largest of them stands
\* for the largest uint64, and only equality with it is ever tested.
MaxUint64 == 2147483647

\* default prefix of NewProvider
prefix == "kubernetes.systemd."

Nil == "nil"

(***************************************************************************)
(* Input domains.                                                          *)
(***************************************************************************)
\* the unit names, in the order the snapshot lists them
NameOrder == <<"a.service", "b.socket", "c.timer", "d.mount", "e.target", "f.socket">>

UnitNames == { NameOrder[i] : i \in 1..Len(NameOrder) }

Ord(n) == CHOOSE i \in 1..Len(NameOrder) : NameOrder[i] = n

SuffixOf ==
    [n \in UnitNames |->
        CASE n = "a.service" -> ".service"
          [] n = "b.socket" -> ".socket"
          [] n = "c.timer" -> ".timer"
          [] n = "d.mount" -> ".mount"
          [] n = "e.target" -> ".target"
          [] n = "f.socket" -> ".socket"]

\* the units a snapshot may hold (dbus.UnitStatus: Name, ActiveState,
\* LoadState).  "reloading" is an active state of systemd that is not in
\* unitStatesName; "not-found" is a load state other than "loaded".
UnitValues ==
    { [Name |-> "a.service", ActiveState |-> "active", LoadState |-> "loaded"],
      [Name |-> "b.socket", ActiveState |-> "inactive", LoadState |-> "loaded"],
      [Name |-> "c.timer", ActiveState |-> "reloading", LoadState |-> "loaded"],
      [Name |-> "d.mount", ActiveState |-> "active", LoadState |-> "loaded"],
      [Name |-> "d.mount", ActiveState |-> "failed", LoadState |-> "not-found"],
      [Name |-> "e.target", ActiveState |-> "inactive", LoadState |-> "loaded"] }

RECURSIVE SeqsUpTo(_, _)
SeqsUpTo(S, n) ==
    IF n = 0 THEN { <<>> }
    ELSE LET shorter == SeqsUpTo(S, n - 1)
         IN  shorter \cup { Append(s, x) : s \in shorter, x \in S }

\* a snapshot lists each unit name at most once, in name order
Snapshots ==
    { s \in SeqsUpTo(UnitValues, MaxUnits) :
        \A i, j \in 1..Len(s) : i < j => Ord(s[i].Name) < Ord(s[j].Name) }

\* a snapshot of two sockets
SocketUnits ==
    << [Name |-> "b.socket", ActiveState |-> "inactive", LoadState |-> "loaded"],
       [Name |-> "f.socket", ActiveState |-> "active", LoadState |-> "loaded"] >>

\* the snapshots of at most one unit, and the snapshot of two sockets
ShortSnapshots == { s \in Snapshots : Len(s) <= 1 } \cup { SocketUnits }

\* src.unitsFilter: nil, or a predicate on unit names (opaque in the source;
\* here the set of names it matches)
UnitFilters ==
    { [nil |-> TRUE, allow |-> {}],
      [nil |-> FALSE, allow |-> {"a.service", "b.socket", "e.target"}] }

\* src.filters: nil, or a predicate on (metric, tags) (opaque in the source;
\* here the metrics and the name tags it rejects)
MetricFilters ==
    { [nil |-> TRUE, denyMetrics |-> {}, denyNames |-> {}],
      [nil |-> FALSE,
       denyMetrics |-> { <<prefix, "units">>, <<prefix, "unit.start.time.seconds">> },
       denyNames |-> {"b.socket", "c.timer"}] }

\* the sources NewProvider may build: every setting of taskMetrics and
\* startTimeMetrics, restartMetrics on its own; no filter, or both filters
\* with the two optional collectors both on or both off
Sources ==
    { s \in [ collectTaskMetrics : BOOLEAN,
              collectStartTimeMetrics : BOOLEAN,
              collectRestartMetrics : BOOLEAN,
              unitsFilter : UnitFilters,
              filters : MetricFilters ] :
        /\ s.unitsFilter.nil <=> s.filters.nil
        /\ ~s.filters.nil =>
              /\ s.collectTaskMetrics <=> s.collectStartTimeMetrics
              /\ ~s.collectRestartMetrics
        /\ s.collectRestartMetrics =>
              ~s.collectTaskMetrics /\ ~s.collectStartTimeMetrics }

(***************************************************************************)
(* Pure functions of the source.                                           *)
(***************************************************************************)
HasSuffix(name, suffix) == SuffixOf[name] = suffix

\* strings.Replace(name, "_", ".", -1) on the metric names the source uses
DotName(name) ==
    CASE name = "units" -> "units"
      [] name = "unit_state" -> "unit.state"
      [] name = "service_restart_total" -> "service.restart.total"
      [] name = "socket_accepted_connections_total" -> "socket.accepted.connections.total"
      [] name = "socket_current_connections" -> "socket.current.connections"
      [] name = "socket_refused_connections_total" -> "socket.refused.connections.total"
      [] name = "unit_start_time_seconds" -> "unit.start.time.seconds"
      [] name = "unit_tasks_current" -> "unit.tasks.current"
      [] name = "unit_tasks_max" -> "unit.tasks.max"
      [] name = "timer_last_trigger_seconds" -> "timer.last.trigger.seconds"
      [] name = "system_running" -> "system.running"

\* map[string]string{} (and the nil map of the system_running point)
NoTags == [name |-> "", state_name |-> "", type |-> ""]

\* setTag: an empty value leaves the map unchanged
setTag(tags, key, val) ==
    IF val # "" THEN [tags EXCEPT ![key] = val] ELSE tags

setTags(tags, name, state, service) ==
    setTag(setTag(setTag(tags, "name", name), "state_name", state), "type", service)

\* src.metricPoint: the metric is the prefix followed by the dotted name; the
\* timestamp and the source are the same for every point of a scrape
metricPoint(name, value, tags) ==
    [Metric |-> <<prefix, DotName(name)>>, Value |-> value, Tags |-> tags]

\* filter.Filter.Match
Match(f, metric, tags) ==
    /\ metric \notin f.denyMetrics
    /\ tags.name \notin f.denyNames

\* unitFilter.match
match(f, name) == name \in f.allow

RECURSIVE filterUnitsAnyLoadState(_, _)
\* mutant of filterUnits: the load state is not tested
filterUnitsAnyLoadState(f, us) ==
    IF us = <<>> THEN <<>>
    ELSE LET u == Head(us)
             rest == filterUnitsAnyLoadState(f, Tail(us))
         IN  IF f.nil \/ match(f, u.Name)
             THEN <<u>> \o rest
             ELSE rest

RECURSIVE filterUnits(_, _)
filterUnits(f, us) ==
    IF us = <<>> THEN <<>>
    ELSE LET u == Head(us)
             rest == filterUnits(f, Tail(us))
         IN  IF (f.nil \/ match(f, u.Name)) /\ u.LoadState = "loaded"
             THEN <<u>> \o rest
             ELSE rest

StateNames == { unitStatesName[k] : k \in 1..Len(unitStatesName) }

\* mutant of summarizeUnits: the five known buckets are not set to zero first
summarizeUnitsNoInit(us) ==
    LET keys == { us[i].ActiveState : i \in 1..Len(us) }
    IN  [k \in keys |-> Cardinality({ i \in 1..Len(us) : us[i].ActiveState = k })]

\* summarizeUnits: the five known buckets start at zero, every unit adds one
\* to the bucket of its active state (a new bucket for an unknown state)
summarizeUnits(us) ==
    LET keys == StateNames \cup { us[i].ActiveState : i \in 1..Len(us) }
    IN  [k \in keys |-> Cardinality({ i \in 1..Len(us) : us[i].ActiveState = k })]

(***************************************************************************)
(* State.                                                                  *)
(***************************************************************************)
VARIABLES
    src,            \* the systemdMetricsSource built by NewProvider
    remoteUnits,    \* the units the service manager holds (ListUnits' answer)
    pc,             \* ScrapeMetrics: the statement the orchestrator is at
    conn,           \* the dbus connection: "none", "open" or "closed"
    allUnits,       \* ScrapeMetrics: allUnits
    units,          \* ScrapeMetrics: units
    summaryTodo,    \* collectSummaryMetrics: the keys of summary not yet ranged over
    err,            \* ScrapeMetrics: err
    result,         \* ScrapeMetrics: result
    ret,            \* what ScrapeMetrics returned
    gather,         \* the buffer of the gather channel
    gatherState,    \* the gather channel: "none", "open" or "closed"
    points,         \* ScrapeMetrics: points
    agg,            \* the gathering goroutine: the statement it is at
    wg,             \* the counter of the sync.WaitGroup
    col,            \* the collector goroutines: statement, loop index, locals
    filteredPoints, \* the process-wide counter of dropped points
    sysLookup,      \* collectSystemState: systemState
    hist            \* history: what has happened so far (read by no action)

vars ==
    << src, remoteUnits, pc, conn, allUnits, units, summaryTodo, err, result, ret,
       gather, gatherState, points, agg, wg, col, filteredPoints, sysLookup, hist >>

Collectors == {"status", "starttime", "tasks", "timers", "sockets"}

NilBatch == [nil |-> TRUE, MetricPoints |-> EmptyBag]

Idle == [pc |-> "idle", i |-> 0, k |-> 0, serviceType |-> "", val |-> 0]

\* values a successful property lookup may answer
TypeValues == {"simple"}

CountValues == {1}

UsecValues == {2000000}

TaskValues == {1, MaxUint64}

SystemStates == {"\"running\"", "\"degraded\""}

\* the most steps the collectors take for unit u under source s: the
\* lookups, and the sends that follow them, the unit_state sends aside
StepsOf(s, u) ==
      (IF HasSuffix(u.Name, ".service") \/ HasSuffix(u.Name, ".mount") THEN 1 ELSE 0)
    + (IF s.collectRestartMetrics /\ HasSuffix(u.Name, ".service") THEN 2 ELSE 0)
    + (IF s.collectStartTimeMetrics
       THEN (IF u.ActiveState = "active" THEN 2 ELSE 1) ELSE 0)
    + (IF s.collectTaskMetrics /\ HasSuffix(u.Name, ".service") THEN 4 ELSE 0)
    + (IF HasSuffix(u.Name, ".timer") THEN 2 ELSE 0)
    + (IF HasSuffix(u.Name, ".socket") THEN 6 ELSE 0)

RECURSIVE StepCount(_, _)
StepCount(s, us) ==
    IF us = <<>> THEN 0 ELSE StepsOf(s, Head(us)) + StepCount(s, Tail(us))

Init ==
    /\ src \in Sources
    /\ remoteUnits \in Snapshots
    /\ StepCount(src, filterUnits(src.unitsFilter, remoteUnits)) <= MaxSteps
    /\ pc = "New"
    /\ conn = "none"
    /\ allUnits = <<>>
    /\ units = <<>>
    /\ summaryTodo = {}
    /\ err = Nil
    /\ result = NilBatch
    /\ ret = [returned |-> FALSE, batch |-> NilBatch, err |-> Nil]
    /\ gather = <<>>
    /\ gatherState = "none"
    /\ points = EmptyBag
    /\ agg = [pc |-> "idle"]
    /\ wg = 0
    /\ col = [c \in Collectors |-> Idle]
    /\ filteredPoints = 0
    /\ sysLookup = ""
    /\ hist = [ sent |-> EmptyBag, closes |-> 0, panicked |-> FALSE,
                connOpens |-> 0, connCloses |-> 0, usedAfterClose |-> FALSE,
                spawned |-> {}, aggStarted |-> FALSE, doneSignals |-> 0,
                lookupFailed |-> {}, pointsRace |-> FALSE, lookups |-> {},
                answers |-> {} ]

\* the same start on the short snapshots, with MaxSteps steps for each unit
\* of the snapshot
ShortInit ==
    /\ src \in Sources
    /\ remoteUnits \in ShortSnapshots
    /\ StepCount(src, filterUnits(src.unitsFilter, remoteUnits))
          <= MaxSteps * Len(remoteUnits)
    /\ pc = "New"
    /\ conn = "none"
    /\ allUnits = <<>>
    /\ units = <<>>
    /\ summaryTodo = {}
    /\ err = Nil
    /\ result = NilBatch
    /\ ret = [returned |-> FALSE, batch |-> NilBatch, err |-> Nil]
    /\ gather = <<>>
    /\ gatherState = "none"
    /\ points = EmptyBag
    /\ agg = [pc |-> "idle"]
    /\ wg = 0
    /\ col = [c \in Collectors |-> Idle]
    /\ filteredPoints = 0
    /\ sysLookup = ""
    /\ hist = [ sent |-> EmptyBag, closes |-> 0, panicked |-> FALSE,
                connOpens |-> 0, connCloses |-> 0, usedAfterClose |-> FALSE,
                spawned |-> {}, aggStarted |-> FALSE, doneSignals |-> 0,
                lookupFailed |-> {}, pointsRace |-> FALSE, lookups |-> {},
                answers |-> {} ]

(***************************************************************************)
(* The gather channel.                                                     *)
(***************************************************************************)
\* ch <- p can proceed: the buffer has room (a send on a closed channel
\* does not block either: it panics)
CanSend == gatherState = "closed" \/ (gatherState = "open" /\ Len(gather) < GatherCap)

\* ch <- p
Send(p) ==
    /\ CanSend
    /\ IF gatherState = "closed"
       THEN /\ hist' = [hist EXCEPT !.panicked = TRUE]
            /\ UNCHANGED gather
       ELSE /\ gather' = Append(gather, p)
            /\ hist' = [hist EXCEPT !.sent = @ (+) SetToBag({p})]

\* a property lookup on conn: notes the property looked up, whether the
\* lookup failed, and a use of the connection while it is not open
Lookup(failed, what) ==
    hist' = [hist EXCEPT
                !.usedAfterClose = @ \/ conn # "open",
                !.lookups = @ \cup {what},
                !.lookupFailed = IF failed THEN @ \cup {what} ELSE @]

\* a property lookup on conn that answers v (noted for the properties whose
\* value decides what is sent)
LookupAnswers(what, v) ==
    hist' = [hist EXCEPT
                !.usedAfterClose = @ \/ conn # "open",
                !.lookups = @ \cup {what},
                !.answers = @ \cup {<<what, v>>}]

(***************************************************************************)
(* The gathering goroutine (lines 83-95) and filterAppend.                 *)
(***************************************************************************)
\* mutant of Keeps: the filter is never consulted
KeepsEveryPoint(f, point) == TRUE

\* filterAppend: whether the point is kept
Keeps(f, point) == f.nil \/ Match(f, point.Metric, point.Tags)

\* mutant of AggReceive: a dropped point is not counted
AggReceiveNoCount ==
    /\ agg.pc = "recv"
    /\ gather # <<>>
    /\ gather' = Tail(gather)
    /\ points' = IF Keeps(src.filters, Head(gather))
                 THEN points (+) SetToBag({Head(gather)}) ELSE points
    /\ UNCHANGED << src, remoteUnits, pc, conn, allUnits, units, summaryTodo, err,
                    result, ret, gatherState, agg, wg, col, sysLookup, hist,
                    filteredPoints >>

\* case point, more := <-gather with a point in the buffer, and
\* points = src.filterAppend(points, point): the goroutine is the only one
\* that touches points and the counter until it signals done, so the receive
\* and the append are one step
AggReceive ==
    /\ agg.pc = "recv"
    /\ gather # <<>>
    /\ gather' = Tail(gather)
    /\ IF Keeps(src.filters, Head(gather))
       THEN /\ points' = points (+) SetToBag({Head(gather)})
            /\ UNCHANGED filteredPoints
       ELSE /\ filteredPoints' = filteredPoints + 1
            /\ UNCHANGED points
    /\ hist' = [hist EXCEPT !.pointsRace = @ \/ pc \in {"Return", "returned"}]
    /\ UNCHANGED << src, remoteUnits, pc, conn, allUnits, units, summaryTodo, err,
                    result, ret, gatherState, agg, wg, col, sysLookup >>

\* case point, more := <-gather, the channel closed and drained: !more
AggSeeClosed ==
    /\ agg.pc = "recv"
    /\ gather = <<>>
    /\ gatherState = "closed"
    /\ agg' = [agg EXCEPT !.pc = "signal"]
    /\ UNCHANGED << src, remoteUnits, pc, conn, allUnits, units, summaryTodo, err,
                    result, ret, gather, gatherState, points, wg, col,
                    filteredPoints, sysLookup, hist >>

\* mutant of DoneHandshake: the orchestrator does not wait for done
DoneNotAwaited ==
    /\ pc = "WaitDone"
    /\ pc' = "Assemble"
    /\ UNCHANGED << src, remoteUnits, conn, allUnits, units, summaryTodo, err,
                    result, ret, gather, gatherState, points, agg, wg, col,
                    filteredPoints, sysLookup, hist >>

\* done <- true meets <-done (the channel is unbuffered: both sides step
\* together); the goroutine then returns
DoneHandshake ==
    /\ agg.pc = "signal"
    /\ pc = "WaitDone"
    /\ agg' = [agg EXCEPT !.pc = "exited"]
    /\ pc' = "Assemble"
    /\ hist' = [hist EXCEPT !.doneSignals = @ + 1]
    /\ UNCHANGED << src, remoteUnits, conn, allUnits, units, summaryTodo, err,
                    result, ret, gather, gatherState, points, wg, col,
                    filteredPoints, sysLookup >>

(***************************************************************************)
(* Where each collector's loop stands when it reaches unit i: the range    *)
(* loop's tests up to the next lookup or send (they read only the          *)
(* goroutine's own arguments).                                             *)
(***************************************************************************)
\* collectUnitStatusMetrics, lines 157-173
StatusAt(us, i, c) ==
    IF i > Len(us) THEN [c EXCEPT !.pc = "exit", !.i = i]
    ELSE IF HasSuffix(us[i].Name, ".service") \/ HasSuffix(us[i].Name, ".mount")
         THEN [c EXCEPT !.pc = "type", !.i = i, !.k = 1, !.serviceType = ""]
         ELSE [c EXCEPT !.pc = "state", !.i = i, !.k = 1, !.serviceType = ""]

\* mutant of StartTimeAt: startTimeUsec is not reset for a unit that is not
\* active
StartTimeAtKeepsValue(us, i, c) ==
    IF i > Len(us) THEN [c EXCEPT !.pc = "exit", !.i = i]
    ELSE IF us[i].ActiveState # "active"
         THEN [c EXCEPT !.pc = "send", !.i = i]
         ELSE [c EXCEPT !.pc = "lookup", !.i = i]

\* collectUnitStartTimeMetrics, lines 231-234
StartTimeAt(us, i, c) ==
    IF i > Len(us) THEN [c EXCEPT !.pc = "exit", !.i = i]
    ELSE IF us[i].ActiveState # "active"
         THEN [c EXCEPT !.pc = "send", !.i = i, !.val = 0]
         ELSE [c EXCEPT !.pc = "lookup", !.i = i]

RECURSIVE NextWithSuffix(_, _, _)
\* the first index from i on of a unit with the suffix (Len(us) + 1 if none)
NextWithSuffix(us, i, suffix) ==
    IF i > Len(us) THEN i
    ELSE IF HasSuffix(us[i].Name, suffix) THEN i
         ELSE NextWithSuffix(us, i + 1, suffix)

\* collectUnitTasksMetrics, lines 250-251
TasksAt(us, i, c) ==
    LET j == NextWithSuffix(us, i, ".service")
    IN  IF j > Len(us) THEN [c EXCEPT !.pc = "exit", !.i = j]
        ELSE [c EXCEPT !.pc = "current", !.i = j]

\* collectTimers, lines 281-284
TimersAt(us, i, c) ==
    LET j == NextWithSuffix(us, i, ".timer")
    IN  IF j > Len(us) THEN [c EXCEPT !.pc = "exit", !.i = j]
        ELSE [c EXCEPT !.pc = "trigger", !.i = j]

\* collectSockets, lines 198-201
SocketsAt(us, i, c) ==
    LET j == NextWithSuffix(us, i, ".socket")
    IN  IF j > Len(us) THEN [c EXCEPT !.pc = "exit", !.i = j]
        ELSE [c EXCEPT !.pc = "accepted", !.i = j]

(***************************************************************************)
(* ScrapeMetrics, the orchestrator.                                        *)
(***************************************************************************)
\* mutant of Return: no deferred conn.Close()
ReturnNoClose(batch, e, failures) ==
    /\ ret' = [returned |-> TRUE, batch |-> batch, err |-> e]
    /\ pc' = "returned"
    /\ hist' = [hist EXCEPT !.lookupFailed = @ \cup failures]
    /\ UNCHANGED conn

\* return batch, e: the deferred conn.Close() runs when a connection was
\* opened (defer conn.Close() follows the test of dbus.New's error).
\* `failures` is the call whose failure leads to this return, for the history.
Return(batch, e, failures) ==
    /\ ret' = [returned |-> TRUE, batch |-> batch, err |-> e]
    /\ pc' = "returned"
    /\ conn' = IF conn = "open" THEN "closed" ELSE conn
    /\ hist' = [hist EXCEPT
                  !.connCloses = IF conn = "open" THEN @ + 1 ELSE @,
                  !.lookupFailed = @ \cup failures]

\* mutant of NewOk: conn.Close() is called at once instead of deferred
NewOkClosesAtOnce ==
    /\ pc = "New"
    /\ conn' = "closed"
    /\ hist' = [hist EXCEPT !.connOpens = @ + 1, !.connCloses = @ + 1]
    /\ pc' = "GetAllUnits"
    /\ UNCHANGED << src, remoteUnits, allUnits, units, summaryTodo, err, result, ret,
                    gather, gatherState, points, agg, wg, col, filteredPoints,
                    sysLookup >>

\* conn, err := dbus.New()
NewOk ==
    /\ pc = "New"
    /\ conn' = "open"
    /\ hist' = [hist EXCEPT !.connOpens = @ + 1]
    /\ pc' = "GetAllUnits"
    /\ UNCHANGED << src, remoteUnits, allUnits, units, summaryTodo, err, result, ret,
                    gather, gatherState, points, agg, wg, col, filteredPoints,
                    sysLookup >>

\* dbus.New() fails: return nil, fmt.Errorf("couldn't get dbus connection")
NewFails ==
    /\ pc = "New"
    /\ err' = "couldn't get dbus connection"
    /\ Return(NilBatch, "couldn't get dbus connection", {<<"New", "">>})
    /\ UNCHANGED << src, remoteUnits, allUnits, units, summaryTodo, result,
                    gather, gatherState, points, agg, wg, col, filteredPoints,
                    sysLookup >>

\* allUnits, err := src.getAllUnits(conn), ListUnits answering
GetAllUnitsOk ==
    /\ pc = "GetAllUnits"
    /\ allUnits' = remoteUnits
    /\ pc' = "StartGathering"
    /\ Lookup(FALSE, <<"ListUnits", "">>)
    /\ UNCHANGED << src, remoteUnits, conn, units, summaryTodo, err, result, ret,
                    gather, gatherState, points, agg, wg, col, filteredPoints,
                    sysLookup >>

\* mutant of GetAllUnitsFails: the error of getAllUnits is not tested
GetAllUnitsErrIgnored ==
    /\ pc = "GetAllUnits"
    /\ err' = "couldn't get units"
    /\ allUnits' = <<>>
    /\ pc' = "StartGathering"
    /\ Lookup(TRUE, <<"ListUnits", "">>)
    /\ UNCHANGED << src, remoteUnits, conn, units, summaryTodo, result, ret,
                    gather, gatherState, points, agg, wg, col, filteredPoints,
                    sysLookup >>

\* getAllUnits fails: return nil, fmt.Errorf("couldn't get units")
GetAllUnitsFails ==
    /\ pc = "GetAllUnits"
    /\ err' = "couldn't get units"
    /\ Return(NilBatch, "couldn't get units", {<<"ListUnits", "">>})
    /\ UNCHANGED << src, remoteUnits, allUnits, units, summaryTodo, result,
                    gather, gatherState, points, agg, wg, col, filteredPoints,
                    sysLookup >>

\* mutant of StartGathering: the gathering goroutine is not started before
\* the summary is sent
StartGatheringNoGoroutine ==
    /\ pc = "StartGathering"
    /\ result' = [nil |-> FALSE, MetricPoints |-> EmptyBag]
    /\ gatherState' = "open"
    /\ summaryTodo' = DOMAIN summarizeUnits(allUnits)
    /\ pc' = "Summary"
    /\ UNCHANGED << src, remoteUnits, conn, allUnits, units, err, ret, gather,
                    points, agg, wg, col, filteredPoints, sysLookup, hist >>

\* lines 72-97: result, the two channels, go func() {...}(), summarizeUnits
StartGathering ==
    /\ pc = "StartGathering"
    /\ result' = [nil |-> FALSE, MetricPoints |-> EmptyBag]
    /\ gatherState' = "open"
    /\ agg' = [pc |-> "recv"]
    /\ summaryTodo' = DOMAIN summarizeUnits(allUnits)
    /\ hist' = [hist EXCEPT !.aggStarted = TRUE]
    /\ pc' = "Summary"
    /\ UNCHANGED << src, remoteUnits, conn, allUnits, units, err, ret, gather,
                    points, wg, col, filteredPoints, sysLookup >>

\* collectSummaryMetrics: one turn of the range over the map (Go ranges over
\* a map in no fixed order)
SummarySend ==
    /\ pc = "Summary"
    /\ \E stateName \in summaryTodo :
          /\ Send(metricPoint("units", summarizeUnits(allUnits)[stateName],
                              setTag(NoTags, "state_name", stateName)))
          /\ summaryTodo' = summaryTodo \ {stateName}
          /\ pc' = IF summaryTodo' = {} THEN "Spawn" ELSE "Summary"
    /\ UNCHANGED << src, remoteUnits, conn, allUnits, units, err, result, ret,
                    gatherState, points, agg, wg, col, filteredPoints, sysLookup >>

\* mutant of Enabled: the toggles are not consulted
EnabledWhateverToggle(c) == TRUE

\* the collectors ScrapeMetrics starts: three always, two by their toggles
Enabled(c) ==
    CASE c = "starttime" -> src.collectStartTimeMetrics
      [] c = "tasks" -> src.collectTaskMetrics
      [] OTHER -> TRUE

\* where collector c stands when its goroutine starts on the units us
StartAt(c, us) ==
    CASE c = "status" -> StatusAt(us, 1, Idle)
      [] c = "starttime" -> StartTimeAt(us, 1, Idle)
      [] c = "tasks" -> TasksAt(us, 1, Idle)
      [] c = "timers" -> TimersAt(us, 1, Idle)
      [] c = "sockets" -> SocketsAt(us, 1, Idle)

\* mutant of SpawnCollectors: one wg.Add(1) is missing
SpawnCollectorsMissingAdd ==
    /\ pc = "Spawn"
    /\ units' = filterUnits(src.unitsFilter, allUnits)
    /\ LET started == { c \in Collectors : Enabled(c) }
       IN  /\ wg' = wg + Cardinality(started) - 1
           /\ col' = [c \in Collectors |->
                        IF c \in started THEN StartAt(c, units') ELSE col[c]]
           /\ hist' = [hist EXCEPT !.spawned = @ \cup started]
    /\ pc' = "SystemState"
    /\ UNCHANGED << src, remoteUnits, conn, allUnits, summaryTodo, err, result, ret,
                    gather, gatherState, points, agg, filteredPoints, sysLookup >>

\* lines 100-136: units := src.filterUnits(allUnits), then for each enabled
\* collector wg.Add(1); go func() { defer wg.Done(); collect...(conn, units,
\* gather, now) }().  The statements neither block nor read anything another
\* goroutine writes, and a goroutine just started may run as late as it
\* likes: they are one step.
SpawnCollectors ==
    /\ pc = "Spawn"
    /\ units' = filterUnits(src.unitsFilter, allUnits)
    /\ LET started == { c \in Collectors : Enabled(c) }
       IN  /\ wg' = wg + Cardinality(started)
           /\ col' = [c \in Collectors |->
                        IF c \in started THEN StartAt(c, units') ELSE col[c]]
           /\ hist' = [hist EXCEPT !.spawned = @ \cup started]
    /\ pc' = "SystemState"
    /\ UNCHANGED << src, remoteUnits, conn, allUnits, summaryTodo, err, result, ret,
                    gather, gatherState, points, agg, filteredPoints, sysLookup >>

\* collectSystemState: conn.GetManagerProperty("SystemState") answers
SystemStateOk ==
    /\ pc = "SystemState"
    /\ \E systemState \in SystemStates : sysLookup' = systemState
    /\ Lookup(FALSE, <<"SystemState", "">>)
    /\ pc' = "SendSystemState"
    /\ UNCHANGED << src, remoteUnits, conn, allUnits, units, summaryTodo, err, result,
                    ret, gather, gatherState, points, agg, wg, col, filteredPoints >>

\* mutant of SystemStateFails: the failure ends the scrape at once
SystemStateFailsAborts ==
    /\ pc = "SystemState"
    /\ err' = "couldn't get system state"
    /\ Lookup(TRUE, <<"SystemState", "">>)
    /\ ret' = [returned |-> TRUE, batch |-> NilBatch, err |-> "couldn't get system state"]
    /\ conn' = "closed"
    /\ pc' = "returned"
    /\ UNCHANGED << src, remoteUnits, allUnits, units, summaryTodo, result,
                    gather, gatherState, points, agg, wg, col, filteredPoints,
                    sysLookup >>

\* collectSystemState fails: err is set (and logged) by ScrapeMetrics
SystemStateFails ==
    /\ pc = "SystemState"
    /\ err' = "couldn't get system state"
    /\ Lookup(TRUE, <<"SystemState", "">>)
    /\ pc' = "Wait"
    /\ UNCHANGED << src, remoteUnits, conn, allUnits, units, summaryTodo, result,
                    ret, gather, gatherState, points, agg, wg, col, filteredPoints,
                    sysLookup >>

\* ch <- src.metricPoint("system_running", isSystemRunning, now, nil); err = nil
SendSystemState ==
    /\ pc = "SendSystemState"
    /\ Send(metricPoint("system_running",
                        IF sysLookup = "\"running\"" THEN 1 ELSE 0, NoTags))
    /\ err' = Nil
    /\ pc' = "Wait"
    /\ UNCHANGED << src, remoteUnits, conn, allUnits, units, summaryTodo, result,
                    ret, gatherState, points, agg, wg, col, filteredPoints, sysLookup >>

\* mutant of WaitGroupDone: wg.Wait() is missing
NoWait == TRUE

\* wg.Wait() returns once the counter is zero
WaitGroupDone == wg = 0

Wait ==
    /\ pc = "Wait"
    /\ WaitGroupDone
    /\ pc' = "Close"
    /\ UNCHANGED << src, remoteUnits, conn, allUnits, units, summaryTodo, err, result,
                    ret, gather, gatherState, points, agg, wg, col, filteredPoints,
                    sysLookup, hist >>

\* close(gather)
Close ==
    /\ pc = "Close"
    /\ gatherState' = "closed"
    /\ hist' = [hist EXCEPT !.closes = @ + 1,
                            !.panicked = @ \/ gatherState = "closed"]
    /\ pc' = "WaitDone"
    /\ UNCHANGED << src, remoteUnits, conn, allUnits, units, summaryTodo, err, result,
                    ret, gather, points, agg, wg, col, filteredPoints, sysLookup >>

\* result.MetricPoints = points
Assemble ==
    /\ pc = "Assemble"
    /\ result' = [result EXCEPT !.MetricPoints = points]
    /\ hist' = [hist EXCEPT !.pointsRace = @ \/ agg.pc = "recv"]
    /\ pc' = "Return"
    /\ UNCHANGED << src, remoteUnits, conn, allUnits, units, summaryTodo, err, ret,
                    gather, gatherState, points, agg, wg, col, filteredPoints,
                    sysLookup >>

\* return result, err
ReturnResult ==
    /\ pc = "Return"
    /\ Return(result, err, {})
    /\ UNCHANGED << src, remoteUnits, allUnits, units, summaryTodo, err, result,
                    gather, gatherState, points, agg, wg, col, filteredPoints,
                    sysLookup >>

(***************************************************************************)
(* collectUnitStatusMetrics (lines 156-195).                               *)
(***************************************************************************)
\* after the five unit_state points of unit i: the NRestarts lookup for a
\* service when restart metrics are on, else the next unit
StatusAfterStates(c) ==
    IF src.collectRestartMetrics /\ HasSuffix(units[c.i].Name, ".service")
    THEN [c EXCEPT !.pc = "restarts"]
    ELSE StatusAt(units, c.i + 1, c)

\* conn.GetUnitTypeProperty(unit.Name, "Service" or "Mount", "Type")
StatusLookupType ==
    /\ col["status"].pc = "type"
    /\ \/ \E t \in TypeValues :
             /\ col' = [col EXCEPT !["status"] = [@ EXCEPT !.pc = "state", !.serviceType = t]]
             /\ Lookup(FALSE, <<"Type", units[col["status"].i].Name>>)
       \/ /\ col' = [col EXCEPT !["status"] = [@ EXCEPT !.pc = "state"]]
          /\ Lookup(TRUE, <<"Type", units[col["status"].i].Name>>)
    /\ UNCHANGED << src, remoteUnits, pc, conn, allUnits, units, summaryTodo, err,
                    result, ret, gatherState, points, agg, wg, filteredPoints,
                    sysLookup, gather >>

\* mutant of UnitStatePoint: the state name is compared with "active"
\* instead of the unit's active state
UnitStatePointOfActive(u, k, serviceType) ==
    metricPoint("unit_state",
                IF unitStatesName[k] = "active" THEN 1 ELSE 0,
                setTags(NoTags, u.Name, unitStatesName[k], serviceType))

\* the unit_state point of unit u for the k-th state name
UnitStatePoint(u, k, serviceType) ==
    metricPoint("unit_state",
                IF unitStatesName[k] = u.ActiveState THEN 1 ELSE 0,
                setTags(NoTags, u.Name, unitStatesName[k], serviceType))

\* one turn of the loop over unitStatesName: ch <- src.metricPoint("unit_state", ...)
StatusSendState ==
    /\ col["status"].pc = "state"
    /\ LET c == col["status"]
       IN  /\ Send(UnitStatePoint(units[c.i], c.k, c.serviceType))
           /\ col' = [col EXCEPT !["status"] =
                        IF c.k < Len(unitStatesName)
                        THEN [c EXCEPT !.k = c.k + 1]
                        ELSE StatusAfterStates(c)]
    /\ UNCHANGED << src, remoteUnits, pc, conn, allUnits, units, summaryTodo, err,
                    result, ret, gatherState, points, agg, wg, filteredPoints,
                    sysLookup >>

\* conn.GetUnitTypeProperty(unit.Name, "Service", "NRestarts")
StatusLookupRestarts ==
    /\ col["status"].pc = "restarts"
    /\ LET c == col["status"]
       IN  \/ \E n \in CountValues :
                /\ col' = [col EXCEPT !["status"] = [c EXCEPT !.pc = "sendRestarts", !.val = n]]
                /\ Lookup(FALSE, <<"NRestarts", units[c.i].Name>>)
           \/ /\ col' = [col EXCEPT !["status"] = StatusAt(units, c.i + 1, c)]
              /\ Lookup(TRUE, <<"NRestarts", units[c.i].Name>>)
    /\ UNCHANGED << src, remoteUnits, pc, conn, allUnits, units, summaryTodo, err,
                    result, ret, gatherState, points, agg, wg, filteredPoints,
                    sysLookup, gather >>

\* ch <- src.metricPoint("service_restart_total", ...)
StatusSendRestarts ==
    /\ col["status"].pc = "sendRestarts"
    /\ LET c == col["status"]
       IN  /\ Send(metricPoint("service_restart_total", c.val,
                               setTag(NoTags, "name", units[c.i].Name)))
           /\ col' = [col EXCEPT !["status"] = StatusAt(units, c.i + 1, [c EXCEPT !.val = 0])]
    /\ UNCHANGED << src, remoteUnits, pc, conn, allUnits, units, summaryTodo, err,
                    result, ret, gatherState, points, agg, wg, filteredPoints,
                    sysLookup >>

(***************************************************************************)
(* collectUnitStartTimeMetrics (lines 229-246).                            *)
(***************************************************************************)
\* mutant of StartTimeLookup: a failed lookup returns from the collector
\* instead of continuing with the next unit
StartTimeLookupReturns ==
    /\ col["starttime"].pc = "lookup"
    /\ LET c == col["starttime"]
       IN  \/ \E usec \in UsecValues :
                /\ col' = [col EXCEPT !["starttime"] = [c EXCEPT !.pc = "send", !.val = usec]]
                /\ LookupAnswers(<<"ActiveEnterTimestamp", units[c.i].Name>>, usec)
           \/ /\ col' = [col EXCEPT !["starttime"] =
                            [c EXCEPT !.pc = "exit", !.i = Len(units) + 1]]
              /\ Lookup(TRUE, <<"ActiveEnterTimestamp", units[c.i].Name>>)
    /\ UNCHANGED << src, remoteUnits, pc, conn, allUnits, units, summaryTodo, err,
                    result, ret, gatherState, points, agg, wg, filteredPoints,
                    sysLookup, gather >>

\* conn.GetUnitProperty(unit.Name, "ActiveEnterTimestamp"); a failure
\* continues with the next unit
StartTimeLookup ==
    /\ col["starttime"].pc = "lookup"
    /\ LET c == col["starttime"]
       IN  \/ \E usec \in UsecValues :
                /\ col' = [col EXCEPT !["starttime"] = [c EXCEPT !.pc = "send", !.val = usec]]
                /\ LookupAnswers(<<"ActiveEnterTimestamp", units[c.i].Name>>, usec)
           \/ /\ col' = [col EXCEPT !["starttime"] = StartTimeAt(units, c.i + 1, c)]
              /\ Lookup(TRUE, <<"ActiveEnterTimestamp", units[c.i].Name>>)
    /\ UNCHANGED << src, remoteUnits, pc, conn, allUnits, units, summaryTodo, err,
                    result, ret, gatherState, points, agg, wg, filteredPoints,
                    sysLookup, gather >>

\* float64(usec) / 1e6, on the whole numbers of seconds the model uses
Seconds(usec) == usec \div 1000000

\* ch <- src.metricPoint("unit_start_time_seconds", float64(startTimeUsec)/1e6, ...)
StartTimeSend ==
    /\ col["starttime"].pc = "send"
    /\ LET c == col["starttime"]
       IN  /\ Send(metricPoint("unit_start_time_seconds", Seconds(c.val),
                               setTag(NoTags, "name", units[c.i].Name)))
           /\ col' = [col EXCEPT !["starttime"] = StartTimeAt(units, c.i + 1, c)]
    /\ UNCHANGED << src, remoteUnits, pc, conn, allUnits, units, summaryTodo, err,
                    result, ret, gatherState, points, agg, wg, filteredPoints,
                    sysLookup >>

(***************************************************************************)
(* collectUnitTasksMetrics (lines 248-278).                                *)
(***************************************************************************)
\* mutant of EmitsTasks: the looked-up value is not compared with MaxUint64
EmitsTasksAlways(val) == TRUE

\* a looked-up task count is sent unless dbus reports MaxUint64
EmitsTasks(val) == val # MaxUint64

\* conn.GetUnitTypeProperty(unit.Name, "Service", "TasksCurrent")
TasksLookupCurrent ==
    /\ col["tasks"].pc = "current"
    /\ LET c == col["tasks"]
       IN  \/ \E v \in TaskValues :
                /\ col' = [col EXCEPT !["tasks"] =
                             [c EXCEPT !.val = v,
                                       !.pc = IF EmitsTasks(v) THEN "sendCurrent" ELSE "max"]]
                /\ LookupAnswers(<<"TasksCurrent", units[c.i].Name>>, v)
           \/ /\ col' = [col EXCEPT !["tasks"] = [c EXCEPT !.pc = "max"]]
              /\ Lookup(TRUE, <<"TasksCurrent", units[c.i].Name>>)
    /\ UNCHANGED << src, remoteUnits, pc, conn, allUnits, units, summaryTodo, err,
                    result, ret, gatherState, points, agg, wg, filteredPoints,
                    sysLookup, gather >>

\* ch <- src.metricPoint("unit_tasks_current", float64(val), ...)
TasksSendCurrent ==
    /\ col["tasks"].pc = "sendCurrent"
    /\ LET c == col["tasks"]
       IN  /\ Send(metricPoint("unit_tasks_current", c.val,
                               setTag(NoTags, "name", units[c.i].Name)))
           /\ col' = [col EXCEPT !["tasks"] = [c EXCEPT !.pc = "max"]]
    /\ UNCHANGED << src, remoteUnits, pc, conn, allUnits, units, summaryTodo, err,
                    result, ret, gatherState, points, agg, wg, filteredPoints,
                    sysLookup >>

\* conn.GetUnitTypeProperty(unit.Name, "Service", "TasksMax")
TasksLookupMax ==
    /\ col["tasks"].pc = "max"
    /\ LET c == col["tasks"]
       IN  \/ \E v \in TaskValues :
                /\ col' = [col EXCEPT !["tasks"] =
                             IF EmitsTasks(v)
                             THEN [c EXCEPT !.val = v, !.pc = "sendMax"]
                             ELSE TasksAt(units, c.i + 1, [c EXCEPT !.val = v])]
                /\ LookupAnswers(<<"TasksMax", units[c.i].Name>>, v)
           \/ /\ col' = [col EXCEPT !["tasks"] = TasksAt(units, c.i + 1, c)]
              /\ Lookup(TRUE, <<"TasksMax", units[c.i].Name>>)
    /\ UNCHANGED << src, remoteUnits, pc, conn, allUnits, units, summaryTodo, err,
                    result, ret, gatherState, points, agg, wg, filteredPoints,
                    sysLookup, gather >>

\* ch <- src.metricPoint("unit_tasks_max", float64(val), ...)
TasksSendMax ==
    /\ col["tasks"].pc = "sendMax"
    /\ LET c == col["tasks"]
       IN  /\ Send(metricPoint("unit_tasks_max", c.val,
                               setTag(NoTags, "name", units[c.i].Name)))
           /\ col' = [col EXCEPT !["tasks"] = TasksAt(units, c.i + 1, c)]
    /\ UNCHANGED << src, remoteUnits, pc, conn, allUnits, units, summaryTodo, err,
                    result, ret, gatherState, points, agg, wg, filteredPoints,
                    sysLookup >>

(***************************************************************************)
(* collectTimers (lines 280-295).                                          *)
(***************************************************************************)
\* conn.GetUnitTypeProperty(unit.Name, "Timer", "LastTriggerUSec")
TimersLookup ==
    /\ col["timers"].pc = "trigger"
    /\ LET c == col["timers"]
       IN  \/ \E usec \in UsecValues :
                /\ col' = [col EXCEPT !["timers"] = [c EXCEPT !.pc = "sendTrigger", !.val = usec]]
                /\ Lookup(FALSE, <<"LastTriggerUSec", units[c.i].Name>>)
           \/ /\ col' = [col EXCEPT !["timers"] = TimersAt(units, c.i + 1, c)]
              /\ Lookup(TRUE, <<"LastTriggerUSec", units[c.i].Name>>)
    /\ UNCHANGED << src, remoteUnits, pc, conn, allUnits, units, summaryTodo, err,
                    result, ret, gatherState, points, agg, wg, filteredPoints,
                    sysLookup, gather >>

\* ch <- src.metricPoint("timer_last_trigger_seconds", float64(...)/1e6, ...)
TimersSend ==
    /\ col["timers"].pc = "sendTrigger"
    /\ LET c == col["timers"]
       IN  /\ Send(metricPoint("timer_last_trigger_seconds", Seconds(c.val),
                               setTag(NoTags, "name", units[c.i].Name)))
           /\ col' = [col EXCEPT !["timers"] = TimersAt(units, c.i + 1, [c EXCEPT !.val = 0])]
    /\ UNCHANGED << src, remoteUnits, pc, conn, allUnits, units, summaryTodo, err,
                    result, ret, gatherState, points, agg, wg, filteredPoints,
                    sysLookup >>

(***************************************************************************)
(* collectSockets (lines 197-227).                                         *)
(***************************************************************************)
\* mutant of SocketsLookupAccepted: a failure goes on to the NConnections
\* lookup of the same unit
SocketsLookupAcceptedFallsThrough ==
    /\ col["sockets"].pc = "accepted"
    /\ LET c == col["sockets"]
       IN  \/ \E n \in CountValues :
                /\ col' = [col EXCEPT !["sockets"] = [c EXCEPT !.pc = "sendAccepted", !.val = n]]
                /\ Lookup(FALSE, <<"NAccepted", units[c.i].Name>>)
           \/ /\ col' = [col EXCEPT !["sockets"] = [c EXCEPT !.pc = "current"]]
              /\ Lookup(TRUE, <<"NAccepted", units[c.i].Name>>)
    /\ UNCHANGED << src, remoteUnits, pc, conn, allUnits, units, summaryTodo, err,
                    result, ret, gatherState, points, agg, wg, filteredPoints,
                    sysLookup, gather >>

\* conn.GetUnitTypeProperty(unit.Name, "Socket", "NAccepted"); a failure
\* continues with the next unit
SocketsLookupAccepted ==
    /\ col["sockets"].pc = "accepted"
    /\ LET c == col["sockets"]
       IN  \/ \E n \in CountValues :
                /\ col' = [col EXCEPT !["sockets"] = [c EXCEPT !.pc = "sendAccepted", !.val = n]]
                /\ Lookup(FALSE, <<"NAccepted", units[c.i].Name>>)
           \/ /\ col' = [col EXCEPT !["sockets"] = SocketsAt(units, c.i + 1, c)]
              /\ Lookup(TRUE, <<"NAccepted", units[c.i].Name>>)
    /\ UNCHANGED << src, remoteUnits, pc, conn, allUnits, units, summaryTodo, err,
                    result, ret, gatherState, points, agg, wg, filteredPoints,
                    sysLookup, gather >>

\* ch <- src.metricPoint("socket_accepted_connections_total", ...)
SocketsSendAccepted ==
    /\ col["sockets"].pc = "sendAccepted"
    /\ LET c == col["sockets"]
       IN  /\ Send(metricPoint("socket_accepted_connections_total", c.val,
                               setTag(NoTags, "name", units[c.i].Name)))
           /\ col' = [col EXCEPT !["sockets"] = [c EXCEPT !.pc = "current", !.val = 0]]
    /\ UNCHANGED << src, remoteUnits, pc, conn, allUnits, units, summaryTodo, err,
                    result, ret, gatherState, points, agg, wg, filteredPoints,
                    sysLookup >>

\* conn.GetUnitTypeProperty(unit.Name, "Socket", "NConnections"); a failure
\* continues with the next unit
SocketsLookupCurrent ==
    /\ col["sockets"].pc = "current"
    /\ LET c == col["sockets"]
       IN  \/ \E n \in CountValues :
                /\ col' = [col EXCEPT !["sockets"] = [c EXCEPT !.pc = "sendCurrent", !.val = n]]
                /\ Lookup(FALSE, <<"NConnections", units[c.i].Name>>)
           \/ /\ col' = [col EXCEPT !["sockets"] = SocketsAt(units, c.i + 1, c)]
              /\ Lookup(TRUE, <<"NConnections", units[c.i].Name>>)
    /\ UNCHANGED << src, remoteUnits, pc, conn, allUnits, units, summaryTodo, err,
                    result, ret, gatherState, points, agg, wg, filteredPoints,
                    sysLookup, gather >>

\* ch <- src.metricPoint("socket_current_connections", ...)
SocketsSendCurrent ==
    /\ col["sockets"].pc = "sendCurrent"
    /\ LET c == col["sockets"]
       IN  /\ Send(metricPoint("socket_current_connections", c.val,
                               setTag(NoTags, "name", units[c.i].Name)))
           /\ col' = [col EXCEPT !["sockets"] = [c EXCEPT !.pc = "refused", !.val = 0]]
    /\ UNCHANGED << src, remoteUnits, pc, conn, allUnits, units, summaryTodo, err,
                    result, ret, gatherState, points, agg, wg, filteredPoints,
                    sysLookup >>

\* conn.GetUnitTypeProperty(unit.Name, "Socket", "NRefused")
SocketsLookupRefused ==
    /\ col["sockets"].pc = "refused"
    /\ LET c == col["sockets"]
       IN  \/ \E n \in CountValues :
                /\ col' = [col EXCEPT !["sockets"] = [c EXCEPT !.pc = "sendRefused", !.val = n]]
                /\ Lookup(FALSE, <<"NRefused", units[c.i].Name>>)
           \/ /\ col' = [col EXCEPT !["sockets"] = SocketsAt(units, c.i + 1, c)]
              /\ Lookup(TRUE, <<"NRefused", units[c.i].Name>>)
    /\ UNCHANGED << src, remoteUnits, pc, conn, allUnits, units, summaryTodo, err,
                    result, ret, gatherState, points, agg, wg, filteredPoints,
                    sysLookup, gather >>

\* ch <- src.metricPoint("socket_refused_connections_total", ...)
SocketsSendRefused ==
    /\ col["sockets"].pc = "sendRefused"
    /\ LET c == col["sockets"]
       IN  /\ Send(metricPoint("socket_refused_connections_total", c.val,
                               setTag(NoTags, "name", units[c.i].Name)))
           /\ col' = [col EXCEPT !["sockets"] = SocketsAt(units, c.i + 1, [c EXCEPT !.val = 0])]
    /\ UNCHANGED << src, remoteUnits, pc, conn, allUnits, units, summaryTodo, err,
                    result, ret, gatherState, points, agg, wg, filteredPoints,
                    sysLookup >>

(***************************************************************************)
(* The end of a collector goroutine: the deferred wg.Done().               *)
(***************************************************************************)
CollectorDone ==
    /\ \E c \in Collectors :
          /\ col[c].pc = "exit"
          /\ col' = [col EXCEPT ![c] = [@ EXCEPT !.pc = "done"]]
    /\ wg' = wg - 1
    /\ UNCHANGED << src, remoteUnits, pc, conn, allUnits, units, summaryTodo, err,
                    result, ret, gather, gatherState, points, agg, filteredPoints,
                    sysLookup, hist >>

Next ==
    \/ NewOk \/ NewFails \/ GetAllUnitsOk \/ GetAllUnitsFails
    \/ StartGathering \/ SummarySend
    \/ SpawnCollectors
    \/ SystemStateOk \/ SystemStateFails \/ SendSystemState
    \/ Wait \/ Close \/ DoneHandshake \/ Assemble \/ ReturnResult
    \/ AggReceive \/ AggSeeClosed
    \/ StatusLookupType \/ StatusSendState \/ StatusLookupRestarts \/ StatusSendRestarts
    \/ StartTimeLookup \/ StartTimeSend
    \/ TasksLookupCurrent \/ TasksSendCurrent \/ TasksLookupMax \/ TasksSendMax
    \/ TimersLookup \/ TimersSend
    \/ SocketsLookupAccepted \/ SocketsSendAccepted \/ SocketsLookupCurrent
    \/ SocketsSendCurrent \/ SocketsLookupRefused \/ SocketsSendRefused
    \/ CollectorDone

Spec == Init /\ [][Next]_vars

\* the scrapes of the short snapshots
ShortSpec == ShortInit /\ [][Next]_vars

\* the same, every goroutine that can take a step taking one in the end:
\* every remote call returns and the Go scheduler starves no goroutine
FairSpec == ShortInit /\ [][Next]_vars /\ WF_vars(Next)

(***************************************************************************)
(* Vocabulary of the properties.                                           *)
(***************************************************************************)
\* two bags hold the same elements the same number of times
BagEq(a, b) ==
    /\ DOMAIN a = DOMAIN b
    /\ \A p \in DOMAIN a : a[p] = b[p]

\* the part of bag b made of the elements in S
Restrict(b, S) == [p \in (DOMAIN b) \cap S |-> b[p]]

\* the number of elements of bag b that are in S
CountIn(b, S) == BagCardinality(Restrict(b, S))

\* the batch keeps point p: no metric filter, or the filter matches it
Survives(p) == src.filters.nil \/ Match(src.filters, p.Metric, p.Tags)

Survivors(b) == Restrict(b, { p \in DOMAIN b : Survives(p) })

\* the points the gathering goroutine has received so far
Received == hist.sent (-) SetToBag({ gather[n] : n \in 1..Len(gather) })

\* ScrapeMetrics has returned a batch
ReturnedBatch == ret.returned /\ ~ret.batch.nil

\* dbus.New or ListUnits has failed
FatalFailure == \E f \in hist.lookupFailed : f[1] \in {"New", "ListUnits"}

\* the lookups that have failed are all lookups of a property of a unit
OnlyUnitLookupsFailed == \A f \in hist.lookupFailed : f[2] # ""

\* the points of a metric tagged with a unit's name, among those sent
PointsOf(metric, name) ==
    { p \in DOMAIN hist.sent : p.Metric = <<prefix, metric>> /\ p.Tags.name = name }

(***************************************************************************)
(* C1.  A successful ScrapeMetrics returns exactly the surviving points:   *)
(* every point sent to the gather channel (summary, system state, any      *)
(* collector) that the metric filter does not reject is in the batch as    *)
(* many times as it was sent, nothing else is, and no point is left in     *)
(* the channel.                                                            *)
(***************************************************************************)
C1_BatchIsSurvivors ==
    ReturnedBatch =>
        /\ gather = <<>>
        /\ BagEq(ret.batch.MetricPoints, Survivors(hist.sent))

\* a batch returned under a metric filter that dropped a point and kept a
\* unit_state point and the system_running point
C1_Witness ==
    /\ ReturnedBatch
    /\ ~src.filters.nil
    /\ \E p \in DOMAIN hist.sent : ~Survives(p)
    /\ \E p \in DOMAIN ret.batch.MetricPoints : p.Metric = <<prefix, "unit.state">>
    /\ \E p \in DOMAIN ret.batch.MetricPoints : p.Metric = <<prefix, "system.running">>

(***************************************************************************)
(* C2.  ScrapeMetrics returns a non-nil error only on a failure of         *)
(* dbus.New or ListUnits: a call ends with (no batch, error) or with       *)
(* (batch, no error), never with a batch and an error.                     *)
(***************************************************************************)
C2_BatchOrError ==
    ret.returned =>
        /\ ret.err # Nil <=> FatalFailure
        /\ ret.batch.nil <=> ret.err # Nil

(***************************************************************************)
(* C3.  When dbus.New or the snapshot fetch fails, ScrapeMetrics has       *)
(* returned a nil batch and a non-nil error, and neither the gathering     *)
(* goroutine nor a collector was started and no point was sent.            *)
(***************************************************************************)
C3_FatalReturnsNothing ==
    FatalFailure =>
        /\ ret.returned /\ ret.batch.nil /\ ret.err # Nil
        /\ ~hist.aggStarted /\ agg.pc = "idle"
        /\ hist.spawned = {} /\ \A c \in Collectors : col[c].pc = "idle"
        /\ gatherState = "none" /\ BagEq(hist.sent, EmptyBag)

\* the snapshot fetch failed on an open connection
C3_Witness ==
    /\ <<"ListUnits", "">> \in hist.lookupFailed
    /\ ret.returned
    /\ hist.connOpens = 1

(***************************************************************************)
(* C4.  When the only lookups that fail are lookups of a unit's property,  *)
(* ScrapeMetrics returns a batch and a nil error, and every collector has  *)
(* gone through all the selected units: each unit has its five unit_state  *)
(* points, and with start-time metrics on each unit has its start-time     *)
(* point unless its own ActiveEnterTimestamp lookup failed.                *)
(***************************************************************************)
C4_UnitFailuresAreNotErrors ==
    (ret.returned /\ OnlyUnitLookupsFailed) =>
        /\ ~ret.batch.nil /\ ret.err = Nil
        /\ \A c \in hist.spawned : col[c].pc = "done" /\ col[c].i = Len(units) + 1
        /\ \A n \in 1..Len(units) :
              /\ CountIn(hist.sent, PointsOf("unit.state", units[n].Name)) = 5
              /\ src.collectStartTimeMetrics =>
                    CountIn(hist.sent, PointsOf("unit.start.time.seconds", units[n].Name))
                      = IF <<"ActiveEnterTimestamp", units[n].Name>> \in hist.lookupFailed
                        THEN 0 ELSE 1

\* the first of two selected units had a lookup fail, and the scrape returned
C4_Witness ==
    /\ ret.returned /\ OnlyUnitLookupsFailed
    /\ Len(units) = 2
    /\ <<"ActiveEnterTimestamp", units[1].Name>> \in hist.lookupFailed
    /\ PointsOf("unit.start.time.seconds", units[2].Name) # {}

(***************************************************************************)
(* C5.  close(gather) happens once per successful scrape and only after    *)
(* every producer has finished: no send meets a closed channel, and while  *)
(* the channel is closed the orchestrator is past its own sends and every  *)
(* collector goroutine has ended.                                          *)
(***************************************************************************)
C5_CloseAfterProducers ==
    /\ ~hist.panicked
    /\ hist.closes <= 1
    /\ gatherState = "closed" =>
          /\ pc \in {"WaitDone", "Assemble", "Return", "returned"}
          /\ \A c \in Collectors : col[c].pc \in {"idle", "done"}
    /\ ReturnedBatch => hist.closes = 1 /\ gatherState = "closed"

\* the channel closed after five collectors ran and sent points of their own
C5_Witness ==
    /\ gatherState = "closed"
    /\ hist.spawned = Collectors
    /\ \E p \in DOMAIN hist.sent : p.Metric = <<prefix, "timer.last.trigger.seconds">>

(***************************************************************************)
(* C6.  The orchestrator reads points only after the gathering goroutine   *)
(* has drained the closed channel and signalled done, which it does once:  *)
(* no read of points happens while the goroutine can still write it.       *)
(***************************************************************************)
C6_ReadAfterDone ==
    /\ ~hist.pointsRace
    /\ hist.doneSignals <= 1
    /\ (pc \in {"Assemble", "Return"} \/ ReturnedBatch) =>
          /\ agg.pc = "exited"
          /\ hist.doneSignals = 1
          /\ gather = <<>> /\ gatherState = "closed"
          /\ BagEq(points, Survivors(hist.sent))
    /\ (pc = "Return" \/ ReturnedBatch) => BagEq(result.MetricPoints, points)

\* the orchestrator has read a sequence the goroutine both appended to and
\* dropped from
C6_Witness ==
    /\ pc = "Return"
    /\ BagCardinality(result.MetricPoints) > 0
    /\ filteredPoints > 0

(***************************************************************************)
(* C7.  No task outlives the call: once ScrapeMetrics has returned, every  *)
(* collector goroutine that was started has ended, and the gathering       *)
(* goroutine, if started, has delivered its signal and returned.           *)
(***************************************************************************)
C7_NoTaskOutlivesScrape ==
    ret.returned =>
        /\ \A c \in Collectors :
              col[c].pc = IF c \in hist.spawned THEN "done" ELSE "idle"
        /\ wg = 0
        /\ agg.pc = IF hist.aggStarted THEN "exited" ELSE "idle"
        /\ hist.aggStarted => hist.doneSignals = 1

\* a scrape that started five collectors, one of which had a lookup fail
C7_Witness ==
    /\ ret.returned
    /\ hist.spawned = Collectors
    /\ \E f \in hist.lookupFailed : f[2] # ""

(***************************************************************************)
(* C8.  The connection is opened at most once and closed exactly once on   *)
(* every return on which it was opened, and not before the return.         *)
(***************************************************************************)
C8_ConnClosedOnReturn ==
    /\ hist.connOpens <= 1
    /\ conn = "open" <=> (hist.connOpens = 1 /\ ~ret.returned)
    /\ hist.connCloses = IF ret.returned THEN hist.connOpens ELSE 0
    /\ conn = "none" <=> hist.connOpens = 0

\* a scrape with a failed unit lookup and a failed system-state lookup
\* returned and closed its connection
C8_Witness ==
    /\ ReturnedBatch
    /\ <<"SystemState", "">> \in hist.lookupFailed
    /\ \E f \in hist.lookupFailed : f[2] # ""
    /\ hist.connCloses = 1

(***************************************************************************)
(* C9.  At every moment the points the gathering goroutine has received    *)
(* split into the kept ones, which are in points, and the dropped ones,    *)
(* each counted once by the counter; without a filter the counter stays    *)
(* at zero; at return batch size plus counter is the number of points      *)
(* sent.                                                                   *)
(***************************************************************************)
C9_DropsAreCounted ==
    /\ BagEq(points, Survivors(Received))
    /\ filteredPoints = BagCardinality(Received) - BagCardinality(points)
    /\ src.filters.nil => filteredPoints = 0
    /\ ReturnedBatch =>
          /\ BagCardinality(ret.batch.MetricPoints) + filteredPoints
               = BagCardinality(hist.sent)
          /\ \A p \in DOMAIN ret.batch.MetricPoints : Survives(p)

\* a returned batch with points kept and more than one point dropped
C9_Witness ==
    /\ ReturnedBatch
    /\ filteredPoints >= 2
    /\ BagCardinality(ret.batch.MetricPoints) >= 2

(***************************************************************************)
(* C10.  For every selected unit the Unit Status collector sends exactly   *)
(* five unit_state points, one per name of unitStatesName, whether or not  *)
(* the Type lookup succeeded.  As claimed: exactly one of them has value   *)
(* 1 and four have value 0, whatever the unit's active state.              *)
(***************************************************************************)
StatusFinished == col["status"].pc \in {"exit", "done"}

C10_OneHotWhateverState ==
    StatusFinished =>
        \A n \in 1..Len(units) :
            LET pts == PointsOf("unit.state", units[n].Name)
            IN  /\ CountIn(hist.sent, pts) = 5
                /\ CountIn(hist.sent, { p \in pts : p.Value = 1 }) = 1
                /\ CountIn(hist.sent, { p \in pts : p.Value = 0 }) = 4

(***************************************************************************)
(* C10, amended.  For every selected unit the collector sends exactly five *)
(* unit_state points, one per name of unitStatesName, and the point of a   *)
(* state name has value 1 if that name is the unit's active state and 0    *)
(* otherwise: exactly one point is 1 when the active state is one of the   *)
(* five names, and all five are 0 when it is not.                          *)
(***************************************************************************)
C10_OneHotIfKnownState ==
    StatusFinished =>
        \A n \in 1..Len(units) :
            LET pts == PointsOf("unit.state", units[n].Name)
                hot == { p \in pts : p.Value = 1 }
            IN  /\ CountIn(hist.sent, pts) = 5
                /\ { p.Tags.state_name : p \in pts } = StateNames
                /\ \A p \in pts :
                      p.Value = IF p.Tags.state_name = units[n].ActiveState THEN 1 ELSE 0
                /\ CountIn(hist.sent, hot)
                     = IF units[n].ActiveState \in StateNames THEN 1 ELSE 0

\* the collector has finished a unit whose Type lookup failed and a unit
\* whose active state is none of the five names
C10_Witness ==
    /\ StatusFinished
    /\ \E n \in 1..Len(units) : units[n].ActiveState \notin StateNames
    /\ \E n \in 1..Len(units) : <<"Type", units[n].Name>> \in hist.lookupFailed

(***************************************************************************)
(* C11.  summarizeUnits(allUnits) holds the five known buckets (zero when  *)
(* no unit has the state) and a bucket for every other state a unit has;   *)
(* its counts add up to the number of units of the full snapshot, the      *)
(* units filterUnits rejects included; and once collectSummaryMetrics is   *)
(* through, the `units` points sent are one per bucket, carrying the       *)
(* bucket's count.                                                         *)
(***************************************************************************)
RECURSIVE SumOver(_, _)
\* the sum of f over the keys in S
SumOver(f, S) ==
    IF S = {} THEN 0
    ELSE LET k == CHOOSE x \in S : TRUE
         IN  f[k] + SumOver(f, S \ {k})

\* the orchestrator is past collectSummaryMetrics
SummaryDone == pc \notin {"New", "GetAllUnits", "StartGathering", "Summary"} /\ ~FatalFailure

\* the `units` points among those sent
UnitsPoints == { p \in DOMAIN hist.sent : p.Metric = <<prefix, "units">> }

C11_SummaryCountsAllUnits ==
    LET summary == summarizeUnits(allUnits)
        states == { allUnits[i].ActiveState : i \in 1..Len(allUnits) }
    IN  /\ DOMAIN summary = StateNames \cup states
        /\ \A k \in StateNames \ states : summary[k] = 0
        /\ \A k \in states : summary[k] >= 1
        /\ SumOver(summary, DOMAIN summary) = Len(allUnits)
        /\ SummaryDone =>
              /\ allUnits = remoteUnits
              /\ { <<p.Tags.state_name, p.Value>> : p \in UnitsPoints }
                   = { <<k, summary[k]>> : k \in DOMAIN summary }
              /\ CountIn(hist.sent, UnitsPoints) = Cardinality(DOMAIN summary)

\* the summary of a snapshot with a unit in an unknown state and a unit the
\* selector rejects has been sent
C11_Witness ==
    /\ SummaryDone
    /\ Len(allUnits) = 2
    /\ Len(filterUnits(src.unitsFilter, allUnits)) < Len(allUnits)
    /\ \E i \in 1..Len(allUnits) : allUnits[i].ActiveState \notin StateNames
    /\ \E p \in UnitsPoints : p.Tags.state_name = "reloading" /\ p.Value = 1

(***************************************************************************)
(* C12.  No unit_tasks_current or unit_tasks_max point carries MaxUint64,  *)
(* and task points are sent only with task metrics on and only for         *)
(* selected units whose name ends in ".service".  The two lookups of a     *)
(* service are independent: both are made whatever the other answers, and  *)
(* each point is sent once unless its own lookup failed or answered        *)
(* MaxUint64.                                                              *)
(***************************************************************************)
TasksFinished == col["tasks"].pc \in {"exit", "done"}

\* the points the tasks collector owes for a property of a service
TaskPointsOwed(property, name) ==
    IF \/ <<property, name>> \in hist.lookupFailed
       \/ <<<<property, name>>, MaxUint64>> \in hist.answers
    THEN 0 ELSE 1

C12_TaskSentinelSuppressed ==
    /\ \A p \in DOMAIN hist.sent :
          p.Metric \in { <<prefix, "unit.tasks.current">>, <<prefix, "unit.tasks.max">> } =>
              /\ p.Value # MaxUint64
              /\ src.collectTaskMetrics
              /\ \E n \in 1..Len(units) :
                    units[n].Name = p.Tags.name /\ HasSuffix(units[n].Name, ".service")
    /\ \A w \in hist.lookups :
          w[1] \in {"TasksCurrent", "TasksMax"} =>
              src.collectTaskMetrics /\ HasSuffix(w[2], ".service")
    /\ TasksFinished =>
          \A n \in 1..Len(units) :
              HasSuffix(units[n].Name, ".service") =>
                  LET name == units[n].Name
                  IN  /\ <<"TasksCurrent", name>> \in hist.lookups
                      /\ <<"TasksMax", name>> \in hist.lookups
                      /\ CountIn(hist.sent, PointsOf("unit.tasks.current", name))
                           = TaskPointsOwed("TasksCurrent", name)
                      /\ CountIn(hist.sent, PointsOf("unit.tasks.max", name))
                           = TaskPointsOwed("TasksMax", name)

\* a service whose TasksCurrent answered MaxUint64 and whose TasksMax point
\* was sent all the same
C12_Witness ==
    /\ TasksFinished
    /\ \E n \in 1..Len(units) :
          /\ <<<<"TasksCurrent", units[n].Name>>, MaxUint64>> \in hist.answers
          /\ PointsOf("unit.tasks.current", units[n].Name) = {}
          /\ PointsOf("unit.tasks.max", units[n].Name) # {}

(***************************************************************************)
(* C13.  A failure of the SystemState lookup costs the system_running      *)
(* point and nothing else: the scrape goes on to wg.Wait, it returns a     *)
(* batch, every collector started runs through all the selected units,     *)
(* and the batch holds every surviving point sent, the summary points and  *)
(* the collectors' points included.  When the lookup answers, exactly one  *)
(* system_running point is sent, whatever other lookups failed.            *)
(***************************************************************************)
SystemStateFailed == <<"SystemState", "">> \in hist.lookupFailed

SystemPoints == { p \in DOMAIN hist.sent : p.Metric = <<prefix, "system.running">> }

\* the orchestrator is past collectSystemState
SystemStateDone == pc \in {"Wait", "Close", "WaitDone", "Assemble", "Return", "returned"}
                     /\ ~FatalFailure

C13_SystemStateFailureSkipsOnePoint ==
    /\ SystemStateFailed => SystemStateDone
    /\ (SystemStateFailed /\ ret.returned) => ~ret.batch.nil
    /\ SystemStateDone =>
          /\ <<"SystemState", "">> \in hist.lookups
          /\ CountIn(hist.sent, SystemPoints) = IF SystemStateFailed THEN 0 ELSE 1
          /\ CountIn(hist.sent, UnitsPoints) = Cardinality(DOMAIN summarizeUnits(allUnits))
    /\ ReturnedBatch =>
          /\ \A c \in hist.spawned : col[c].pc = "done" /\ col[c].i = Len(units) + 1
          /\ \A n \in 1..Len(units) :
                CountIn(hist.sent, PointsOf("unit.state", units[n].Name)) = 5
          /\ \A p \in DOMAIN hist.sent :
                Survives(p) =>
                    /\ p \in DOMAIN ret.batch.MetricPoints
                    /\ ret.batch.MetricPoints[p] = hist.sent[p]

\* a batch returned after the SystemState lookup failed, holding summary
\* points and the points of a collector that looked a property up
C13_Witness ==
    /\ ReturnedBatch
    /\ SystemStateFailed
    /\ SystemPoints = {}
    /\ \E p \in DOMAIN ret.batch.MetricPoints : p.Metric = <<prefix, "units">>
    /\ \E p \in DOMAIN ret.batch.MetricPoints :
          p.Metric = <<prefix, "timer.last.trigger.seconds">>

(***************************************************************************)
(* C14.  As claimed: in collectSockets a failure of the NConnections       *)
(* lookup of a socket skips only the socket_current_connections point:     *)
(* NRefused is still looked up for that socket, and its point is sent      *)
(* when the lookup answers.                                                *)
(***************************************************************************)
SocketsFinished == col["sockets"].pc \in {"exit", "done"}

C14_RefusedLookedUpIndependently ==
    SocketsFinished =>
        \A n \in 1..Len(units) :
            LET name == units[n].Name
            IN  <<"NConnections", name>> \in hist.lookupFailed =>
                    /\ PointsOf("socket.current.connections", name) = {}
                    /\ <<"NRefused", name>> \in hist.lookups
                    /\ <<"NRefused", name>> \notin hist.lookupFailed =>
                          CountIn(hist.sent,
                                  PointsOf("socket.refused.connections.total", name)) = 1

(***************************************************************************)
(* C15.  In collectSockets a failed NAccepted lookup of a socket means     *)
(* that NConnections is not looked up for it and that neither its          *)
(* accepted nor its current point is sent; the collector goes on: every    *)
(* selected socket has its NAccepted looked up.  No socket property of a   *)
(* unit that is not a selected socket is ever looked up.                   *)
(***************************************************************************)
SocketProperties == {"NAccepted", "NConnections", "NRefused"}

C15_AcceptedFailureSkipsCurrent ==
    /\ \A w \in hist.lookups :
          w[1] \in SocketProperties =>
              \E n \in 1..Len(units) :
                  units[n].Name = w[2] /\ HasSuffix(units[n].Name, ".socket")
    /\ \A w \in hist.lookupFailed :
          w[1] = "NAccepted" =>
              /\ <<"NConnections", w[2]>> \notin hist.lookups
              /\ PointsOf("socket.accepted.connections.total", w[2]) = {}
              /\ PointsOf("socket.current.connections", w[2]) = {}
    /\ SocketsFinished =>
          /\ col["sockets"].i = Len(units) + 1
          /\ \A n \in 1..Len(units) :
                HasSuffix(units[n].Name, ".socket") =>
                    /\ <<"NAccepted", units[n].Name>> \in hist.lookups
                    /\ <<"NAccepted", units[n].Name>> \notin hist.lookupFailed =>
                          CountIn(hist.sent,
                                  PointsOf("socket.accepted.connections.total",
                                           units[n].Name)) = 1

\* the NAccepted lookup of the first of two sockets failed, and the second
\* socket's accepted point was sent
C15_Witness ==
    /\ SocketsFinished
    /\ Len(units) = 2
    /\ <<"NAccepted", units[1].Name>> \in hist.lookupFailed
    /\ PointsOf("socket.accepted.connections.total", units[2].Name) # {}

(***************************************************************************)
(* C16.  filterUnits keeps exactly the units that are loaded and that the  *)
(* unit filter, if there is one, matches, in the order of the snapshot;    *)
(* the collectors work on this selection only: every property looked up    *)
(* for a unit and every point tagged with a unit's name is of a selected   *)
(* unit.                                                                   *)
(***************************************************************************)
\* the Unit Selector's test
Selected(u) ==
    /\ u.LoadState = "loaded"
    /\ src.unitsFilter.nil \/ match(src.unitsFilter, u.Name)

\* the orchestrator is past filterUnits and the go statements
SpawnDone ==
    pc \notin {"New", "GetAllUnits", "StartGathering", "Summary", "Spawn"} /\ ~FatalFailure

C16_SelectedUnitsOnly ==
    /\ units = IF SpawnDone THEN SelectSeq(allUnits, Selected) ELSE <<>>
    /\ \A w \in hist.lookups :
          w[2] # "" => \E n \in 1..Len(units) : units[n].Name = w[2]
    /\ \A p \in DOMAIN hist.sent :
          p.Tags.name # "" => \E n \in 1..Len(units) : units[n].Name = p.Tags.name
    /\ StatusFinished =>
          \A n \in 1..Len(units) : PointsOf("unit.state", units[n].Name) # {}

\* under a unit filter the status collector has gone through a selection
\* that keeps one unit of the snapshot and rejects the other
C16_Witness ==
    /\ SpawnDone /\ StatusFinished
    /\ ~src.unitsFilter.nil
    /\ Len(allUnits) = 2 /\ Len(units) = 1
    /\ PointsOf("unit.state", units[1].Name) # {}

(***************************************************************************)
(* C17.  ScrapeMetrics starts between three and five collector goroutines: *)
(* status, timers and sockets always, start time iff startTimeMetrics,     *)
(* tasks iff taskMetrics.  With a toggle off no property of its category   *)
(* is looked up and no point of it is sent or returned.  The summary       *)
(* points are all sent before any collector is started, and the            *)
(* system_running point is sent by the orchestrator before wg.Wait.        *)
(***************************************************************************)
CollectorsOf(s) ==
    {"status", "timers", "sockets"}
      \cup (IF s.collectStartTimeMetrics THEN {"starttime"} ELSE {})
      \cup (IF s.collectTaskMetrics THEN {"tasks"} ELSE {})

StartTimeMetrics == { <<prefix, "unit.start.time.seconds">> }

TaskMetrics == { <<prefix, "unit.tasks.current">>, <<prefix, "unit.tasks.max">> }

C17_CollectorsByToggles ==
    /\ hist.spawned = IF SpawnDone THEN CollectorsOf(src) ELSE {}
    /\ Cardinality(CollectorsOf(src)) \in 3..5
    /\ \A c \in Collectors : c \notin hist.spawned => col[c] = Idle
    /\ \A c \in hist.spawned : col[c].pc # "idle"
    /\ wg = Cardinality({ c \in hist.spawned : col[c].pc # "done" })
    /\ ~src.collectStartTimeMetrics =>
          /\ \A p \in DOMAIN hist.sent : p.Metric \notin StartTimeMetrics
          /\ \A w \in hist.lookups : w[1] # "ActiveEnterTimestamp"
          /\ \A p \in DOMAIN ret.batch.MetricPoints : p.Metric \notin StartTimeMetrics
    /\ ~src.collectTaskMetrics =>
          /\ \A p \in DOMAIN hist.sent : p.Metric \notin TaskMetrics
          /\ \A w \in hist.lookups : w[1] \notin {"TasksCurrent", "TasksMax"}
          /\ \A p \in DOMAIN ret.batch.MetricPoints : p.Metric \notin TaskMetrics
    /\ pc = "Spawn" =>
          CountIn(hist.sent, UnitsPoints) = Cardinality(DOMAIN summarizeUnits(allUnits))
    /\ ~SummaryDone => BagEq(hist.sent, Restrict(hist.sent, UnitsPoints))
    /\ SystemPoints # {} => SystemStateDone

\* a batch returned by a scrape of four collectors: task metrics on, start
\* time metrics off, an active unit selected and a task point in the batch
C17_Witness ==
    /\ ReturnedBatch
    /\ Cardinality(hist.spawned) = 4
    /\ "starttime" \notin hist.spawned
    /\ \E n \in 1..Len(units) : units[n].ActiveState = "active"
    /\ \E p \in DOMAIN ret.batch.MetricPoints : p.Metric \in TaskMetrics

(***************************************************************************)
(* C18.  collectUnitStartTimeMetrics sends at most one                     *)
(* unit_start_time_seconds point for a selected unit, whatever its suffix: *)
(* for a unit that is not active one point of value 0 and no lookup; for   *)
(* an active unit a lookup of ActiveEnterTimestamp, then one point of the  *)
(* answer in seconds, or no point when the lookup failed.  A point never   *)
(* carries the value of an earlier unit.                                   *)
(***************************************************************************)
StartTimeFinished == col["starttime"].pc \in {"exit", "done"}

C18_StartTimePerUnit ==
    /\ \A w \in hist.lookups :
          w[1] = "ActiveEnterTimestamp" =>
              /\ src.collectStartTimeMetrics
              /\ \E n \in 1..Len(units) :
                    units[n].Name = w[2] /\ units[n].ActiveState = "active"
    /\ \A n \in 1..Len(units) :
          LET name == units[n].Name
              pts == PointsOf("unit.start.time.seconds", name)
          IN  /\ CountIn(hist.sent, pts) <= 1
              /\ \A p \in pts :
                    IF units[n].ActiveState # "active"
                    THEN p.Value = 0
                    ELSE \E a \in hist.answers :
                            /\ a[1] = <<"ActiveEnterTimestamp", name>>
                            /\ p.Value = Seconds(a[2])
              /\ StartTimeFinished =>
                    CountIn(hist.sent, pts)
                      = IF <<"ActiveEnterTimestamp", name>> \in hist.lookupFailed
                        THEN 0 ELSE 1

\* the collector is through an active unit whose lookup answered and a
\* later unit that is not active
C18_Witness ==
    /\ StartTimeFinished
    /\ Len(units) = 2
    /\ units[1].ActiveState = "active" /\ units[2].ActiveState # "active"
    /\ \E p \in PointsOf("unit.start.time.seconds", units[1].Name) : p.Value > 0
    /\ \E p \in PointsOf("unit.start.time.seconds", units[2].Name) : p.Value = 0

(***************************************************************************)

(* C19.  Every remote call returning and no goroutine being starved, every *)
(* ScrapeMetrics call returns in the end, with a gather channel that holds *)
(* fewer points than the summary or a collector sends: the gathering       *)
(* goroutine is receiving before the first send.  No state short of the    *)
(* return is a deadlock: some goroutine can take a step.                   *)
(***************************************************************************)
C19_ScrapeReturns ==
    /\ [](~ret.returned => ENABLED Next)
    /\ [](BagCardinality(hist.sent) > 0 => hist.aggStarted)
    /\ <>ret.returned

\* a batch was returned after more summary points, and more points of one
\* collector, than the channel holds were sent, a producer having found the
\* channel full
C19_Witness ==
    /\ ReturnedBatch
    /\ CountIn(hist.sent, UnitsPoints) > GatherCap
    /\ \E n \in 1..Len(units) :
          CountIn(hist.sent, PointsOf("unit.state", units[n].Name)) > GatherCap
    /\ BagCardinality(hist.sent) > GatherCap + 10

(***************************************************************************)
(* C20.  The connection is never used after it is closed: every lookup,    *)
(* of a collector, of getAllUnits or of collectSystemState, is made on     *)
(* the open connection; while a lookup is still to come the connection is  *)
(* open; and the connection is closed by the orchestrator's return alone,  *)
(* when every collector has ended.                                         *)
(***************************************************************************)
\* the statements of a collector that look a property up
LookupStatements ==
    {"type", "restarts", "lookup", "current", "max", "trigger", "accepted", "refused"}

C20_ConnNotUsedAfterClose ==
    /\ ~hist.usedAfterClose
    /\ hist.lookups # {} => hist.connOpens = 1
    /\ (\E c \in Collectors : col[c].pc \notin {"idle", "done"}) => conn = "open"
    /\ pc \in {"GetAllUnits", "SystemState"} => conn = "open"
    /\ conn = "closed" =>
          /\ pc = "returned" /\ ret.returned
          /\ \A c \in Collectors : col[c].pc \in {"idle", "done"}
          /\ \A c \in Collectors : col[c].pc \notin LookupStatements

\* the connection was closed after the snapshot, the system state and the
\* properties of units were looked up by three collectors
C20_Witness ==
    /\ conn = "closed"
    /\ {<<"ListUnits", "">>, <<"SystemState", "">>} \subseteq hist.lookups
    /\ \E w \in hist.lookups : w[1] = "Type"
    /\ \E w \in hist.lookups : w[1] = "ActiveEnterTimestamp"
    /\ \E w \in hist.lookups : w[1] = "LastTriggerUSec"

=============================================================================
